---------------------------- MODULE Spec2Model ----------------------------
(***************************************************************************)
(* A model of src/index.ts (first variant, lines 1-232): the asynchronous  *)
(* startup handshake, the one-time construction of the GPU resources in    *)
(* main(), the matrix computation of getTransformationMatrix() and the     *)
(* self-rescheduling frame() callback, together with the device queue      *)
(* that executes uniform writes and command buffers in submission order.   *)
(*                                                                         *)
(* Floats are modelled in fixed point (value * Scale, rounded down), and a *)
(* Float32Array is serialised to little-endian two's-complement bytes.     *)
(* Date.now() takes the values k * TimeDivisor, k \in 0..MaxTime, so that  *)
(* Date.now() / 5000 is a whole number of radians with a tabulated sine    *)
(* and cosine.                                                             *)
(***************************************************************************)
EXTENDS Integers, Sequences, FiniteSets, TLC

VARIABLES
    \* ---- top-level script and startup handshake (lines 10-56)
    boot,               \* "notrun" | "started" | "aborted": the top-level script
    vertFetch,          \* basicVertWgslPromise: "idle" | "pending" | "text" | "rejected"
    fragFetch,          \* vertexPositionColorWgslPromise, likewise
    adapterReq,         \* "none" | "pending" | "settled"
    deviceReq,          \* "none" | "pending" | "settled"
    adapterRequests,    \* number of navigator.gpu.requestAdapter() calls
    deviceRequests,     \* number of adapter.requestDevice() calls
    adapter,            \* "none" | "null" | "ok"
    device,             \* "none" | "null" | "ok"
    context,            \* "none" | "null" | "ok": canvas.getContext("webgpu")
    configured,         \* context.configure(...) has been called
    allThen,            \* Promise.all(...).then: "none" | "waiting" | "fired"
    canvasSize,         \* <<width, height>> of the canvas
    errors,             \* the uncaught errors raised so far, in order
    \* ---- main() (lines 67-232)
    mainCalls,          \* number of invocations of main()
    mainPc,             \* position in mainBody, 0 when main() is not executing
    res,                \* GPU object name -> "none" | "valid" | "invalid"
    verticesState,      \* "none" | "mapped" | "uploaded" | "unmapped"
    vertexUploads,      \* number of writes of the cube data into the vertex buffer
    projectionMatrix,   \* 16 fixed-point numbers, <<>> before it is computed
    projections,        \* number of times mat4.perspective was evaluated
    modelViewProjectionMatrix, \* the reused output Float32Array, <<>> before mat4.create()
    rafInitial,         \* number of executions of line 230
    \* ---- frame() (lines 204-229)
    rafPending,         \* frame callbacks requested and not yet run
    pc,                 \* position in frameBody, 0 when frame() is not executing
    frameNo,            \* number of the current / last tick, modulo MaxTicks
    ticks,              \* "none" | "one" | "many": how many ticks have begun
    now,                \* Date.now() sampled by the current / last tick
    submitReturned,     \* the current / last tick's queue.submit has returned
    frameFailed,        \* a tick has thrown
    colorView,          \* renderPassDescriptor.colorAttachments[0].view: 0 or a view id
    currentView,        \* id of the view of the swapchain texture of this refresh
    encoder,            \* state of this tick's command encoder and render pass
    lastEnqueued,       \* kind and tick of the operation frame() enqueued last
    \* ---- device queue and device memory
    queue,              \* operations enqueued and not yet executed
    uniformBuffer,      \* the 64 bytes of the uniform buffer in device memory
    uniformFrame,       \* number of the tick whose write produced uniformBuffer, -1 at first
    lastDraw,           \* the last draw the device executed, or NoDraw
    \* ---- history, for the specification of the matrix function alone
    calls               \* the calls of getTransformationMatrix():
                        \* <<Date.now(), result, rotation axis>>

vars == <<boot, vertFetch, fragFetch, adapterReq, deviceReq, adapterRequests,
          deviceRequests, adapter, device, context, configured, allThen,
          canvasSize, errors, mainCalls, mainPc, res, verticesState,
          vertexUploads, projectionMatrix, projections,
          modelViewProjectionMatrix, rafInitial, rafPending, pc, frameNo,
          ticks, now, submitReturned, frameFailed, colorView, currentView,
          encoder, lastEnqueued, queue, uniformBuffer, uniformFrame, lastDraw,
          calls>>

bootVars == <<boot, vertFetch, fragFetch, adapterReq, deviceReq,
              adapterRequests, deviceRequests, adapter, device, context,
              configured, allThen, canvasSize>>
mainVars == <<mainCalls, mainPc, res, verticesState, vertexUploads,
              projectionMatrix, projections, modelViewProjectionMatrix,
              rafInitial>>
tickVars == <<pc, frameNo, ticks, now, submitReturned, frameFailed,
              colorView, currentView, encoder, lastEnqueued>>
gpuVars  == <<queue, uniformBuffer, uniformFrame, lastDraw>>

-----------------------------------------------------------------------------
(* Bounds of the model *)

\* Date.now() / TimeDivisor ranges over 0..MaxTime
MaxTime == 1
\* tick numbers are kept modulo MaxTicks
MaxTicks == 3
\* a tick begins only while fewer than MaxQueue - 1 operations are queued
MaxQueue == 3
\* the specification of the matrix function alone makes at most MaxCalls calls
MaxCalls == 5

(* Program constants *)

\* line 191: Date.now() / 5000
TimeDivisor == 5000
\* line 190: vec3.fromValues(0, 0, -10)
CameraZ == -10
\* line 141: 4 * 16
uniformBufferSize == 4 * 16
\* cubeVertexCount of ./src/meshes/cube.js: 6 faces * 2 triangles * 3 vertices
cubeVertexCount == 36

\* fixed-point scale of the modelled floats
Scale == 10 * 10

\* line 181: tan(pi/2 - fov/2) for fov = (2 * Math.PI) / 5, times Scale
TanHalfFov == 137
\* line 183: zNear = 1
zNear == 1
\* line 184: zFar = 100.0
zFar == 100
\* line 195: the rotation angle, in radians
RotationAngle == 1

-----------------------------------------------------------------------------
(* Fixed-point arithmetic and the wgpu-matrix operations the program calls *)

FxMul(a, b) == (a * b) \div Scale
FxDiv(a, b) == (a * Scale) \div b

\* floor of the square root
ISqrt(n) == CHOOSE r \in 0..(n + 1) : r * r <= n /\ (r + 1) * (r + 1) > n

\* Math.sin and Math.cos of a whole number of radians, times Scale
SinTable == <<0, 84, 90, 14, -76, -96, -28, 65>>
CosTable == <<100, 54, -42, -99, -66, 28, 96, 75>>
MathSin(t) == SinTable[t + 1]
MathCos(t) == CosTable[t + 1]

\* mat4.identity()
Mat4Identity == [i \in 1..16 |-> IF (i - 1) % 5 = 0 THEN Scale ELSE 0]

\* mat4.create(): a new Float32Array(16), all zero
Mat4Create == [i \in 1..16 |-> 0]

\* mat4.translate(m, v, m): only the last column changes when dst is m
Mat4Translate(m, v) ==
    [i \in 1..16 |->
        IF i <= 12 THEN m[i]
        ELSE LET r == i - 12
             IN  FxMul(m[r], v[1]) + FxMul(m[4 + r], v[2])
                 + FxMul(m[8 + r], v[3]) + m[12 + r]]

\* mat4.rotate(m, axis, angle, m): m times the rotation about the normalised axis
Mat4Rotate(m, axis, angle) ==
    LET n  == ISqrt(axis[1] * axis[1] + axis[2] * axis[2] + axis[3] * axis[3])
        x  == FxDiv(axis[1], n)
        y  == FxDiv(axis[2], n)
        z  == FxDiv(axis[3], n)
        xx == FxMul(x, x)
        yy == FxMul(y, y)
        zz == FxMul(z, z)
        c  == MathCos(angle)
        s  == MathSin(angle)
        oneMinusCosine == Scale - c
        r  == << xx + FxMul(Scale - xx, c),
                 FxMul(FxMul(x, y), oneMinusCosine) + FxMul(z, s),
                 FxMul(FxMul(x, z), oneMinusCosine) - FxMul(y, s),
                 FxMul(FxMul(x, y), oneMinusCosine) - FxMul(z, s),
                 yy + FxMul(Scale - yy, c),
                 FxMul(FxMul(y, z), oneMinusCosine) + FxMul(x, s),
                 FxMul(FxMul(x, z), oneMinusCosine) + FxMul(y, s),
                 FxMul(FxMul(y, z), oneMinusCosine) - FxMul(x, s),
                 zz + FxMul(Scale - zz, c) >>
    IN  [i \in 1..16 |->
            IF i > 12 THEN m[i]
            ELSE LET col == (i - 1) \div 4
                     row == ((i - 1) % 4) + 1
                 IN  FxMul(r[3 * col + 1], m[row])
                     + FxMul(r[3 * col + 2], m[4 + row])
                     + FxMul(r[3 * col + 3], m[8 + row])]

\* mat4.multiply(a, b, dst): every element of dst is overwritten with a * b
Mat4Multiply(a, b, dst) ==
    [i \in DOMAIN dst |->
        LET col == (i - 1) \div 4
            row == ((i - 1) % 4) + 1
        IN  FxMul(a[row], b[4 * col + 1]) + FxMul(a[4 + row], b[4 * col + 2])
            + FxMul(a[8 + row], b[4 * col + 3]) + FxMul(a[12 + row], b[4 * col + 4])]

\* mat4.perspective(fov, aspect, zNear, zFar), f = tan(pi/2 - fov/2)
Mat4Perspective(f, aspectRatio, near, far) ==
    [i \in 1..16 |->
        CASE i = 1  -> FxDiv(f, aspectRatio)
          [] i = 6  -> f
          [] i = 11 -> FxDiv(far * Scale, (near - far) * Scale)
          [] i = 12 -> -Scale
          [] i = 15 -> FxDiv(FxMul(far * Scale, near * Scale), (near - far) * Scale)
          [] OTHER  -> 0]

\* line 179: props.canvas.width / props.canvas.height
Aspect(size) == FxDiv(size[1] * Scale, size[2] * Scale)

\* lines 180-185
ProjectionOf(size) == Mat4Perspective(TanHalfFov, Aspect(size), zNear, zFar)

\* the rotation axis if the divisor were the period of the axis: the angle
\* taken from the time elapsed within the current period of TimeDivisor ms
RotationAxisPeriodic(nowMs) ==
    LET t == (nowMs % TimeDivisor) \div TimeDivisor
    IN  <<MathSin(t), MathCos(t), 0>>

\* lines 191-194: the rotation axis for Date.now() = nowMs
RotationAxis(nowMs) ==
    LET t == nowMs \div TimeDivisor
    IN  <<MathSin(t), MathCos(t), 0>>

\* the values Date.now() takes
TimeValues == { t * TimeDivisor : t \in 0..MaxTime }

\* lines 189-197: the view matrix built afresh by every call: the identity,
\* translated, then rotated about the axis of the time of the call
viewMatrixAt ==
    [nowMs \in TimeValues |->
        Mat4Rotate(Mat4Translate(Mat4Identity, <<0, 0, CameraZ * Scale>>),
                   RotationAxis(nowMs), RotationAngle)]

\* getTransformationMatrix() adding the product to the output array instead
\* of overwriting it
getTransformationMatrixAccumulating(nowMs, proj, dst) ==
    [i \in DOMAIN dst |-> dst[i] + Mat4Multiply(proj, viewMatrixAt[nowMs], dst)[i]]

\* lines 188-202: getTransformationMatrix(), with Date.now() = nowMs, the
\* closure's projectionMatrix and the reused output array dst
getTransformationMatrix(nowMs, proj, dst) ==
    Mat4Multiply(proj, viewMatrixAt[nowMs], dst)

\* mat4.multiply called with projectionMatrix as its destination: the
\* product overwrites the projection
ProjectionAsDestination(proj, product) == product

\* line 199: projectionMatrix after the call of mat4.multiply, which reads
\* it as the left operand and writes only modelViewProjectionMatrix
ProjectionAfterMultiply(proj, product) == proj

\* the bytes of a Float32Array: four little-endian bytes per element
BytesOf(m) ==
    [k \in 1..(4 * Len(m)) |->
        (m[((k - 1) \div 4) + 1] \div (256 ^ ((k - 1) % 4))) % 256]

\* queue.writeBuffer(buffer, bufferOffset, data, dataOffset, size): the bytes
\* data[dataOffset .. dataOffset + size - 1] replace buffer[bufferOffset ..]
WriteBytes(buffer, bufferOffset, data, dataOffset, size) ==
    [k \in DOMAIN buffer |->
        IF k - 1 >= bufferOffset /\ k - 1 < bufferOffset + size
        THEN data[(k - 1) - bufferOffset + dataOffset + 1]
        ELSE buffer[k]]

-----------------------------------------------------------------------------
(* The program text as sequences of steps *)

\* main() requesting the first callback before the bind group is created
mainBodyStartsEarly ==
    << "createVerticesBuffer", "setVertices", "unmap",
       "createVertexModule", "createFragmentModule", "createRenderPipeline",
       "createDepthTexture", "createUniformBuffer", "requestAnimationFrame",
       "createBindGroup", "renderPassDescriptor", "perspective", "create" >>

\* main() creating the depth texture before the pipeline
mainBodyDepthTextureFirst ==
    << "createVerticesBuffer", "setVertices", "unmap",
       "createVertexModule", "createFragmentModule", "createDepthTexture",
       "createRenderPipeline", "createUniformBuffer", "createBindGroup",
       "renderPassDescriptor", "perspective", "create",
       "requestAnimationFrame" >>

\* lines 70-230: the statements of main(), in program order
mainBody ==
    << "createVerticesBuffer", "setVertices", "unmap",
       "createVertexModule", "createFragmentModule", "createRenderPipeline",
       "createDepthTexture", "createUniformBuffer", "createBindGroup",
       "renderPassDescriptor", "perspective", "create",
       "requestAnimationFrame" >>

\* frame() with the uniform write moved behind the submission
frameBodyWriteAfterSubmit ==
    << "getTransformationMatrix", "createView", "createCommandEncoder",
       "beginRenderPass", "setPipeline", "setBindGroup", "setVertexBuffer",
       "draw", "end", "submit", "writeBuffer", "requestAnimationFrame" >>

\* frame() requesting the next callback before it submits
frameBodyRequestBeforeSubmit ==
    << "getTransformationMatrix", "writeBuffer", "createView",
       "createCommandEncoder", "beginRenderPass", "setPipeline",
       "setBindGroup", "setVertexBuffer", "draw", "end",
       "requestAnimationFrame", "submit" >>

\* frame() requesting the next callback as its first statement
frameBodyRequestFirst ==
    << "requestAnimationFrame", "getTransformationMatrix", "writeBuffer",
       "createView", "createCommandEncoder", "beginRenderPass", "setPipeline",
       "setBindGroup", "setVertexBuffer", "draw", "end", "submit" >>

\* frame() without the request of the next callback
frameBodyNoRequest ==
    << "getTransformationMatrix", "writeBuffer", "createView",
       "createCommandEncoder", "beginRenderPass", "setPipeline",
       "setBindGroup", "setVertexBuffer", "draw", "end", "submit" >>

\* frame() requesting the next callback twice
frameBodyRequestTwice ==
    << "getTransformationMatrix", "writeBuffer", "createView",
       "createCommandEncoder", "beginRenderPass", "setPipeline",
       "setBindGroup", "setVertexBuffer", "draw", "end", "submit",
       "requestAnimationFrame", "requestAnimationFrame" >>

\* frame() beginning the render pass before it assigns the color view
frameBodyViewAfterBegin ==
    << "getTransformationMatrix", "writeBuffer", "createCommandEncoder",
       "beginRenderPass", "createView", "setPipeline", "setBindGroup",
       "setVertexBuffer", "draw", "end", "submit", "requestAnimationFrame" >>

\* frame() issuing the draw before it binds the vertex buffer
frameBodyDrawBeforeBind ==
    << "getTransformationMatrix", "writeBuffer", "createView",
       "createCommandEncoder", "beginRenderPass", "setPipeline",
       "setBindGroup", "draw", "setVertexBuffer", "end", "submit",
       "requestAnimationFrame" >>

\* lines 206-228: the statements of frame(), in program order
frameBody ==
    << "getTransformationMatrix", "writeBuffer", "createView",
       "createCommandEncoder", "beginRenderPass", "setPipeline",
       "setBindGroup", "setVertexBuffer", "draw", "end", "submit",
       "requestAnimationFrame" >>

\* the GPU objects main() creates
Resources ==
    { "verticesBuffer", "vertexModule", "fragmentModule", "pipeline",
      "depthTexture", "uniformBuffer", "uniformBindGroup" }

\* the canvas sizes the host may give the page (lines 22-23)
CanvasSizes == { <<800, 600>> }

\* the canvas sizes of the specification of the matrix function alone
MatrixSizes == { <<800, 600>>, <<600, 600>>, <<1200, 600>> }

NoDraw == [frame |-> -1, uniformFrame |-> -1, view |-> 0, vertices |-> 0]
NoOperation == [op |-> "none", frame |-> -1]
\* group and slot are the indices the bind group and the vertex buffer were
\* bound at, -1 while unbound; unboundDraws counts the draws recorded while
\* the pipeline, the bind group or the vertex buffer was not bound
NoEncoder == [state |-> "none", view |-> 0, passes |-> 0, pipeline |-> FALSE,
              bindGroup |-> FALSE, group |-> -1, vertexBuffer |-> FALSE,
              slot |-> -1, draws |-> 0, vertices |-> 0, indexed |-> FALSE,
              unboundDraws |-> 0]

\* no JavaScript is executing: callbacks run to completion, one at a time
JsIdle == mainPc = 0 /\ pc = 0

InitFixed ==
    /\ boot = "notrun"
    /\ vertFetch = "idle"
    /\ fragFetch = "idle"
    /\ adapterReq = "none"
    /\ deviceReq = "none"
    /\ adapterRequests = 0
    /\ deviceRequests = 0
    /\ adapter = "none"
    /\ device = "none"
    /\ context = "none"
    /\ configured = FALSE
    /\ allThen = "none"
    /\ errors = <<>>
    /\ mainCalls = 0
    /\ mainPc = 0
    /\ res = [r \in Resources |-> "none"]
    /\ verticesState = "none"
    /\ vertexUploads = 0
    /\ projections = 0
    /\ rafInitial = 0
    /\ rafPending = 0
    /\ pc = 0
    /\ frameNo = 0
    /\ ticks = "none"
    /\ now = 0
    /\ submitReturned = FALSE
    /\ frameFailed = FALSE
    /\ colorView = 0
    /\ currentView = 0
    /\ encoder = NoEncoder
    /\ lastEnqueued = NoOperation
    /\ queue = <<>>
    /\ uniformBuffer = <<>>
    /\ uniformFrame = -1
    /\ lastDraw = NoDraw
    /\ calls = <<>>

\* the state before the top-level script runs
Init ==
    /\ InitFixed
    /\ canvasSize = <<0, 0>>
    /\ projectionMatrix = <<>>
    /\ modelViewProjectionMatrix = <<>>

-----------------------------------------------------------------------------
(* The top-level script and the startup handshake, lines 10-56 *)

\* lines 10-26: the module's top-level statements
Script ==
    /\ boot = "notrun"
    /\ vertFetch' = "pending"
    /\ fragFetch' = "pending"
    /\ \E gpu \in BOOLEAN, hasCanvas \in BOOLEAN, size \in CanvasSizes :
          \/ /\ ~gpu
             /\ errors' = Append(errors, "WebGPU not suported on this browser")
             /\ boot' = "aborted"
             /\ UNCHANGED <<canvasSize, adapterReq, adapterRequests>>
          \/ /\ gpu /\ ~hasCanvas
             /\ errors' = Append(errors, "Canvas not found")
             /\ boot' = "aborted"
             /\ UNCHANGED <<canvasSize, adapterReq, adapterRequests>>
          \/ /\ gpu /\ hasCanvas
             /\ canvasSize' = size
             /\ adapterReq' = "pending"
             /\ adapterRequests' = adapterRequests + 1
             /\ boot' = "started"
             /\ UNCHANGED errors
    /\ UNCHANGED <<deviceReq, deviceRequests, adapter, device, context,
                   configured, allThen>>
    /\ UNCHANGED <<mainVars, rafPending, tickVars, gpuVars>>
    /\ UNCHANGED calls

\* line 10: the fetch of basic_vert.wgsl and its res.text() settle
FetchVert ==
    /\ vertFetch = "pending"
    /\ JsIdle
    /\ \E outcome \in {"text", "rejected"} : vertFetch' = outcome
    /\ UNCHANGED <<boot, fragFetch, adapterReq, deviceReq, adapterRequests,
                   deviceRequests, adapter, device, context, configured,
                   allThen, canvasSize, errors>>
    /\ UNCHANGED <<mainVars, rafPending, tickVars, gpuVars>>
    /\ UNCHANGED calls

\* line 11: the fetch of vertexPositionColor_frag.wgsl and its res.text() settle
FetchFrag ==
    /\ fragFetch = "pending"
    /\ JsIdle
    /\ \E outcome \in {"text", "rejected"} : fragFetch' = outcome
    /\ UNCHANGED <<boot, vertFetch, adapterReq, deviceReq, adapterRequests,
                   deviceRequests, adapter, device, context, configured,
                   allThen, canvasSize, errors>>
    /\ UNCHANGED <<mainVars, rafPending, tickVars, gpuVars>>
    /\ UNCHANGED calls

\* the handle used without the null check
UsableUnchecked(handle) == TRUE

\* lines 28, 30, 32: a handle is used only when it is not null
Usable(handle) == handle # "null"

\* lines 26-29 and 53-55: requestAdapter() settles and its handler runs
AdapterSettled ==
    /\ adapterReq = "pending"
    /\ JsIdle
    /\ adapterReq' = "settled"
    /\ \E a \in {"ok", "null", "rejected"} :
          \/ /\ a = "rejected"
             /\ errors' = Append(errors, "No appropriate GPUAdapter found.")
             /\ UNCHANGED <<adapter, deviceReq, deviceRequests>>
          \/ /\ a # "rejected" /\ ~Usable(a)
             /\ adapter' = a
             /\ errors' = Append(errors, "Adapter not found")
             /\ UNCHANGED <<deviceReq, deviceRequests>>
          \/ /\ a # "rejected" /\ Usable(a)
             /\ adapter' = a
             /\ deviceReq' = "pending"
             /\ deviceRequests' = deviceRequests + 1
             /\ UNCHANGED errors
    /\ UNCHANGED <<boot, vertFetch, fragFetch, adapterRequests, device,
                   context, configured, allThen, canvasSize>>
    /\ UNCHANGED <<mainVars, rafPending, tickVars, gpuVars>>
    /\ UNCHANGED calls

\* lines 29-41: requestDevice() settles and its handler runs
DeviceSettled ==
    /\ deviceReq = "pending"
    /\ JsIdle
    /\ deviceReq' = "settled"
    /\ \E d \in {"ok", "null", "rejected"}, c \in {"ok", "null"} :
          \/ /\ d = "rejected"
             /\ errors' = Append(errors, "requestDevice rejected")
             /\ UNCHANGED <<device, context, configured, allThen>>
          \/ /\ d # "rejected" /\ ~Usable(d)
             /\ device' = d
             /\ errors' = Append(errors, "device not found")
             /\ UNCHANGED <<context, configured, allThen>>
          \/ /\ d # "rejected" /\ Usable(d) /\ ~Usable(c)
             /\ device' = d
             /\ context' = c
             /\ errors' = Append(errors, "Context not found")
             /\ UNCHANGED <<configured, allThen>>
          \/ /\ d # "rejected" /\ Usable(d) /\ Usable(c)
             /\ device' = d
             /\ context' = c
             /\ configured' = TRUE
             /\ allThen' = "waiting"
             /\ UNCHANGED errors
    /\ UNCHANGED <<boot, vertFetch, fragFetch, adapterReq, adapterRequests,
                   deviceRequests, adapter, canvasSize>>
    /\ UNCHANGED <<mainVars, rafPending, tickVars, gpuVars>>
    /\ UNCHANGED calls

\* fulfilment as soon as one of the shader texts is there, as of Promise.any
AnyFulfilled(vert, frag) == vert = "text" \/ frag = "text"

\* line 41: Promise.all fulfils when both shader texts are there
AllFulfilled(vert, frag) == vert = "text" /\ frag = "text"

\* lines 41-50: the Promise.all handler runs and calls main()
CallMain ==
    /\ allThen = "waiting"
    /\ JsIdle
    /\ AllFulfilled(vertFetch, fragFetch)
    /\ allThen' = "fired"
    /\ mainCalls' = mainCalls + 1
    /\ mainPc' = 1
    /\ UNCHANGED <<boot, vertFetch, fragFetch, adapterReq, deviceReq,
                   adapterRequests, deviceRequests, adapter, device, context,
                   configured, canvasSize, errors>>
    /\ UNCHANGED <<res, verticesState, vertexUploads, projectionMatrix,
                   projections, modelViewProjectionMatrix, rafInitial>>
    /\ UNCHANGED <<rafPending, tickVars, gpuVars>>
    /\ UNCHANGED calls

\* line 41: Promise.all rejects when a shader fetch rejected; nothing handles it
AllRejected ==
    /\ allThen = "waiting"
    /\ JsIdle
    /\ vertFetch = "rejected" \/ fragFetch = "rejected"
    /\ allThen' = "rejected"
    /\ errors' = Append(errors, "shader fetch rejected")
    /\ UNCHANGED <<boot, vertFetch, fragFetch, adapterReq, deviceReq,
                   adapterRequests, deviceRequests, adapter, device, context,
                   configured, canvasSize>>
    /\ UNCHANGED <<mainVars, rafPending, tickVars, gpuVars>>
    /\ UNCHANGED calls

-----------------------------------------------------------------------------
(* main(), lines 67-232 *)

AtMain(name) == mainPc > 0 /\ mainBody[mainPc] = name
MainNext == IF mainPc = Len(mainBody) THEN 0 ELSE mainPc + 1

\* what a create call returns: a valid object, or an invalid one together
\* with a validation or out-of-memory error on the device timeline
Outcome(ok) == IF ok THEN "valid" ELSE "invalid"

mainRest == <<rafPending, tickVars, queue, uniformFrame, lastDraw, bootVars>>

\* lines 70-74: device.createBuffer({..., mappedAtCreation: true})
CreateVerticesBuffer ==
    /\ AtMain("createVerticesBuffer")
    /\ \E ok \in BOOLEAN : res' = [res EXCEPT !["verticesBuffer"] = Outcome(ok)]
    /\ verticesState' = "mapped"
    /\ mainPc' = MainNext
    /\ UNCHANGED <<mainCalls, vertexUploads, projectionMatrix, projections,
                   modelViewProjectionMatrix, rafInitial, uniformBuffer, errors>>
    /\ UNCHANGED mainRest
    /\ UNCHANGED calls

\* line 76: new Float32Array(verticesBuffer.getMappedRange()).set(cubeVertexArray)
SetVertices ==
    /\ AtMain("setVertices")
    /\ verticesState = "mapped"
    /\ verticesState' = "uploaded"
    /\ vertexUploads' = vertexUploads + 1
    /\ mainPc' = MainNext
    /\ UNCHANGED <<mainCalls, res, projectionMatrix, projections,
                   modelViewProjectionMatrix, rafInitial, uniformBuffer, errors>>
    /\ UNCHANGED mainRest
    /\ UNCHANGED calls

\* line 77: verticesBuffer.unmap()
Unmap ==
    /\ AtMain("unmap")
    /\ verticesState \in {"mapped", "uploaded"}
    /\ verticesState' = "unmapped"
    /\ mainPc' = MainNext
    /\ UNCHANGED <<mainCalls, res, vertexUploads, projectionMatrix, projections,
                   modelViewProjectionMatrix, rafInitial, uniformBuffer, errors>>
    /\ UNCHANGED mainRest
    /\ UNCHANGED calls

\* lines 82-84: device.createShaderModule({code: props.basicVertWgsl})
CreateVertexModule ==
    /\ AtMain("createVertexModule")
    /\ \E ok \in BOOLEAN : res' = [res EXCEPT !["vertexModule"] = Outcome(ok)]
    /\ mainPc' = MainNext
    /\ UNCHANGED <<mainCalls, verticesState, vertexUploads, projectionMatrix,
                   projections, modelViewProjectionMatrix, rafInitial,
                   uniformBuffer, errors>>
    /\ UNCHANGED mainRest
    /\ UNCHANGED calls

\* lines 107-109: device.createShaderModule({code: props.vertexPositionColorWgsl})
CreateFragmentModule ==
    /\ AtMain("createFragmentModule")
    /\ \E ok \in BOOLEAN : res' = [res EXCEPT !["fragmentModule"] = Outcome(ok)]
    /\ mainPc' = MainNext
    /\ UNCHANGED <<mainCalls, verticesState, vertexUploads, projectionMatrix,
                   projections, modelViewProjectionMatrix, rafInitial,
                   uniformBuffer, errors>>
    /\ UNCHANGED mainRest
    /\ UNCHANGED calls

\* lines 79-133: device.createRenderPipeline(...), valid only with valid modules
CreateRenderPipeline ==
    /\ AtMain("createRenderPipeline")
    /\ res["vertexModule"] # "none" /\ res["fragmentModule"] # "none"
    /\ \E ok \in BOOLEAN :
          res' = [res EXCEPT !["pipeline"] =
                     Outcome(ok /\ res["vertexModule"] = "valid"
                                /\ res["fragmentModule"] = "valid")]
    /\ mainPc' = MainNext
    /\ UNCHANGED <<mainCalls, verticesState, vertexUploads, projectionMatrix,
                   projections, modelViewProjectionMatrix, rafInitial,
                   uniformBuffer, errors>>
    /\ UNCHANGED mainRest
    /\ UNCHANGED calls

\* lines 135-139: device.createTexture(...)
CreateDepthTexture ==
    /\ AtMain("createDepthTexture")
    /\ \E ok \in BOOLEAN : res' = [res EXCEPT !["depthTexture"] = Outcome(ok)]
    /\ mainPc' = MainNext
    /\ UNCHANGED <<mainCalls, verticesState, vertexUploads, projectionMatrix,
                   projections, modelViewProjectionMatrix, rafInitial,
                   uniformBuffer, errors>>
    /\ UNCHANGED mainRest
    /\ UNCHANGED calls

\* lines 141-145: device.createBuffer({size: uniformBufferSize, ...}), zero-filled
CreateUniformBuffer ==
    /\ AtMain("createUniformBuffer")
    /\ \E ok \in BOOLEAN : res' = [res EXCEPT !["uniformBuffer"] = Outcome(ok)]
    /\ uniformBuffer' = [k \in 1..uniformBufferSize |-> 0]
    /\ mainPc' = MainNext
    /\ UNCHANGED <<mainCalls, verticesState, vertexUploads, projectionMatrix,
                   projections, modelViewProjectionMatrix, rafInitial, errors>>
    /\ UNCHANGED mainRest
    /\ UNCHANGED calls

\* lines 147-157: device.createBindGroup({layout: pipeline.getBindGroupLayout(0), ...})
CreateBindGroup ==
    /\ AtMain("createBindGroup")
    /\ res["pipeline"] # "none" /\ res["uniformBuffer"] # "none"
    /\ \E ok \in BOOLEAN :
          res' = [res EXCEPT !["uniformBindGroup"] =
                     Outcome(ok /\ res["pipeline"] = "valid"
                                /\ res["uniformBuffer"] = "valid")]
    /\ mainPc' = MainNext
    /\ UNCHANGED <<mainCalls, verticesState, vertexUploads, projectionMatrix,
                   projections, modelViewProjectionMatrix, rafInitial,
                   uniformBuffer, errors>>
    /\ UNCHANGED mainRest
    /\ UNCHANGED calls

\* lines 159-177: the render pass descriptor, its color view undefined as yet
RenderPassDescriptor ==
    /\ AtMain("renderPassDescriptor")
    /\ res["depthTexture"] # "none"
    /\ mainPc' = MainNext
    /\ UNCHANGED <<mainCalls, res, verticesState, vertexUploads,
                   projectionMatrix, projections, modelViewProjectionMatrix,
                   rafInitial, uniformBuffer, errors>>
    /\ UNCHANGED mainRest
    /\ UNCHANGED calls

\* lines 179-185: aspect and mat4.perspective(...)
Perspective ==
    /\ AtMain("perspective")
    /\ projectionMatrix' = ProjectionOf(canvasSize)
    /\ projections' = projections + 1
    /\ mainPc' = MainNext
    /\ UNCHANGED <<mainCalls, res, verticesState, vertexUploads,
                   modelViewProjectionMatrix, rafInitial, uniformBuffer, errors>>
    /\ UNCHANGED mainRest
    /\ UNCHANGED calls

\* line 186: const modelViewProjectionMatrix = mat4.create()
Create ==
    /\ AtMain("create")
    /\ modelViewProjectionMatrix' = Mat4Create
    /\ mainPc' = MainNext
    /\ UNCHANGED <<mainCalls, res, verticesState, vertexUploads,
                   projectionMatrix, projections, rafInitial, uniformBuffer,
                   errors>>
    /\ UNCHANGED mainRest
    /\ UNCHANGED calls

\* line 230: the first requestAnimationFrame(frame)
StartLoop ==
    /\ AtMain("requestAnimationFrame")
    /\ rafPending' = rafPending + 1
    /\ rafInitial' = rafInitial + 1
    /\ mainPc' = MainNext
    /\ UNCHANGED <<mainCalls, res, verticesState, vertexUploads,
                   projectionMatrix, projections, modelViewProjectionMatrix,
                   uniformBuffer, errors>>
    /\ UNCHANGED <<tickVars, queue, uniformFrame, lastDraw, bootVars>>
    /\ UNCHANGED calls

\* a statement of main() throws: the exception leaves main() and is reported
MainThrow ==
    /\ mainPc > 0
    /\ mainBody[mainPc] # "requestAnimationFrame"
    /\ mainPc' = 0
    /\ errors' = Append(errors, mainBody[mainPc])
    /\ UNCHANGED <<mainCalls, res, verticesState, vertexUploads,
                   projectionMatrix, projections, modelViewProjectionMatrix,
                   rafInitial, uniformBuffer>>
    /\ UNCHANGED mainRest
    /\ UNCHANGED calls

-----------------------------------------------------------------------------
(* frame(), lines 204-229 *)

AtFrame(name) == pc > 0 /\ frameBody[pc] = name
FrameNext == IF pc = Len(frameBody) THEN 0 ELSE pc + 1

frameRest == <<bootVars, errors, mainVars, uniformBuffer, uniformFrame, lastDraw>>

\* the host runs a requested frame callback at a display refresh
FrameBegin ==
    /\ rafPending > 0
    /\ JsIdle
    /\ Len(queue) < MaxQueue - 1
    /\ rafPending' = rafPending - 1
    /\ pc' = 1
    /\ frameNo' = (frameNo + 1) % MaxTicks
    /\ ticks' = IF ticks = "none" THEN "one" ELSE "many"
    /\ submitReturned' = FALSE
    /\ currentView' = (currentView % MaxTicks) + 1
    /\ UNCHANGED <<lastEnqueued, now, frameFailed, colorView, encoder, queue>>
    /\ UNCHANGED frameRest
    /\ UNCHANGED calls

\* the element count passed where the byte length is expected
ByteLengthAsLength(m) == Len(m)

\* line 212: transformationMatrix.byteLength
ByteLength(m) == 4 * Len(m)

\* line 206: const transformationMatrix = getTransformationMatrix()
GetTransformationMatrix ==
    /\ AtFrame("getTransformationMatrix")
    /\ \E t \in 0..MaxTime :
          /\ now' = t * TimeDivisor
          /\ modelViewProjectionMatrix' =
                getTransformationMatrix(t * TimeDivisor, projectionMatrix,
                                        modelViewProjectionMatrix)
    /\ projectionMatrix' =
          ProjectionAfterMultiply(projectionMatrix, modelViewProjectionMatrix')
    /\ pc' = FrameNext
    /\ UNCHANGED <<lastEnqueued, frameNo, ticks, submitReturned, frameFailed, colorView,
                   currentView, encoder, rafPending, queue>>
    /\ UNCHANGED <<bootVars, errors, mainCalls, mainPc, res, verticesState,
                   vertexUploads, projections, rafInitial,
                   uniformBuffer, uniformFrame, lastDraw>>
    /\ UNCHANGED calls

\* lines 207-213: device.queue.writeBuffer(uniformBuffer, 0, m.buffer,
\* m.byteOffset, m.byteLength); the data is copied when the call is made
WriteBuffer ==
    /\ AtFrame("writeBuffer")
    /\ queue' = Append(queue,
                    [op |-> "write", frame |-> frameNo, bufferOffset |-> 0,
                     data |-> BytesOf(modelViewProjectionMatrix),
                     dataOffset |-> 0,
                     size |-> ByteLength(modelViewProjectionMatrix)])
    /\ lastEnqueued' = [op |-> "write", frame |-> frameNo]
    /\ pc' = FrameNext
    /\ UNCHANGED <<frameNo, ticks, now, submitReturned, frameFailed, colorView,
                   currentView, encoder, rafPending>>
    /\ UNCHANGED frameRest
    /\ UNCHANGED calls

\* lines 215-217: colorAttachments[0].view = context.getCurrentTexture().createView()
CreateView ==
    /\ AtFrame("createView")
    /\ colorView' = currentView
    /\ pc' = FrameNext
    /\ UNCHANGED <<lastEnqueued, frameNo, ticks, now, submitReturned, frameFailed,
                   currentView, encoder, rafPending, queue>>
    /\ UNCHANGED frameRest
    /\ UNCHANGED calls

\* line 219: device.createCommandEncoder()
CreateCommandEncoder ==
    /\ AtFrame("createCommandEncoder")
    /\ encoder' = [NoEncoder EXCEPT !.state = "open"]
    /\ pc' = FrameNext
    /\ UNCHANGED <<lastEnqueued, frameNo, ticks, now, submitReturned, frameFailed, colorView,
                   currentView, rafPending, queue>>
    /\ UNCHANGED frameRest
    /\ UNCHANGED calls

\* line 220: commandEncoder.beginRenderPass(renderPassDescriptor)
BeginRenderPass ==
    /\ AtFrame("beginRenderPass")
    /\ encoder.state \in {"open", "ended"}
    /\ encoder' = [encoder EXCEPT !.state = "pass", !.view = colorView,
                                  !.passes = @ + 1]
    /\ pc' = FrameNext
    /\ UNCHANGED <<lastEnqueued, frameNo, ticks, now, submitReturned, frameFailed, colorView,
                   currentView, rafPending, queue>>
    /\ UNCHANGED frameRest
    /\ UNCHANGED calls

\* line 221: passEncoder.setPipeline(pipeline)
SetPipeline ==
    /\ AtFrame("setPipeline")
    /\ encoder.state = "pass"
    /\ encoder' = [encoder EXCEPT !.pipeline = TRUE]
    /\ pc' = FrameNext
    /\ UNCHANGED <<lastEnqueued, frameNo, ticks, now, submitReturned, frameFailed, colorView,
                   currentView, rafPending, queue>>
    /\ UNCHANGED frameRest
    /\ UNCHANGED calls

\* line 222: passEncoder.setBindGroup(0, uniformBindGroup)
SetBindGroup ==
    /\ AtFrame("setBindGroup")
    /\ encoder.state = "pass"
    /\ encoder' = [encoder EXCEPT !.bindGroup = TRUE, !.group = 0]
    /\ pc' = FrameNext
    /\ UNCHANGED <<lastEnqueued, frameNo, ticks, now, submitReturned, frameFailed, colorView,
                   currentView, rafPending, queue>>
    /\ UNCHANGED frameRest
    /\ UNCHANGED calls

\* line 223: passEncoder.setVertexBuffer(0, verticesBuffer)
SetVertexBuffer ==
    /\ AtFrame("setVertexBuffer")
    /\ encoder.state = "pass"
    /\ encoder' = [encoder EXCEPT !.vertexBuffer = TRUE, !.slot = 0]
    /\ pc' = FrameNext
    /\ UNCHANGED <<lastEnqueued, frameNo, ticks, now, submitReturned, frameFailed, colorView,
                   currentView, rafPending, queue>>
    /\ UNCHANGED frameRest
    /\ UNCHANGED calls

\* line 224: passEncoder.draw(cubeVertexCount)
Draw ==
    /\ AtFrame("draw")
    /\ encoder.state = "pass"
    /\ encoder' = [encoder EXCEPT
                      !.draws = @ + 1,
                      !.vertices = cubeVertexCount,
                      !.indexed = FALSE,
                      !.unboundDraws =
                          IF encoder.pipeline /\ encoder.bindGroup
                             /\ encoder.vertexBuffer
                          THEN @ ELSE @ + 1]
    /\ pc' = FrameNext
    /\ UNCHANGED <<lastEnqueued, frameNo, ticks, now, submitReturned, frameFailed, colorView,
                   currentView, rafPending, queue>>
    /\ UNCHANGED frameRest
    /\ UNCHANGED calls

\* line 225: passEncoder.end()
End ==
    /\ AtFrame("end")
    /\ encoder.state = "pass"
    /\ encoder' = [encoder EXCEPT !.state = "ended"]
    /\ pc' = FrameNext
    /\ UNCHANGED <<lastEnqueued, frameNo, ticks, now, submitReturned, frameFailed, colorView,
                   currentView, rafPending, queue>>
    /\ UNCHANGED frameRest
    /\ UNCHANGED calls

\* the command buffer draws only if every object it uses is valid, the
\* encoder was finished with no pass open and every draw was recorded with
\* pipeline, bind group and vertex buffer bound
CommandsValid(e) ==
    /\ \A r \in Resources : res[r] = "valid"
    /\ e.state # "pass"
    /\ e.view # 0
    /\ e.pipeline /\ e.bindGroup /\ e.vertexBuffer
    /\ e.unboundDraws = 0

\* line 226: device.queue.submit([commandEncoder.finish()])
Submit ==
    /\ AtFrame("submit")
    /\ encoder.state # "none"
    /\ queue' = Append(queue,
                    [op |-> "submit", frame |-> frameNo,
                     valid |-> CommandsValid(encoder), view |-> encoder.view,
                     draws |-> encoder.draws, vertices |-> encoder.vertices,
                     commands |-> encoder])
    /\ encoder' = NoEncoder
    /\ submitReturned' = TRUE
    /\ lastEnqueued' = [op |-> "submit", frame |-> frameNo]
    /\ pc' = FrameNext
    /\ UNCHANGED <<frameNo, ticks, now, frameFailed, colorView, currentView,
                   rafPending>>
    /\ UNCHANGED frameRest
    /\ UNCHANGED calls

\* line 228: requestAnimationFrame(frame)
RequestAnimationFrame ==
    /\ AtFrame("requestAnimationFrame")
    /\ rafPending' = rafPending + 1
    /\ pc' = FrameNext
    /\ UNCHANGED <<lastEnqueued, frameNo, ticks, now, submitReturned, frameFailed, colorView,
                   currentView, encoder, queue>>
    /\ UNCHANGED frameRest
    /\ UNCHANGED calls

\* a statement of frame() throws: the exception leaves frame() and is reported
FrameThrow ==
    /\ pc > 0
    /\ frameBody[pc] # "requestAnimationFrame"
    /\ pc' = 0
    /\ frameFailed' = TRUE
    /\ errors' = Append(errors, frameBody[pc])
    /\ UNCHANGED <<lastEnqueued, frameNo, ticks, now, submitReturned, colorView, currentView,
                   encoder, rafPending, queue>>
    /\ UNCHANGED <<bootVars, mainVars, uniformBuffer, uniformFrame, lastDraw>>
    /\ UNCHANGED calls

-----------------------------------------------------------------------------
(* The device queue: operations execute one at a time, in submission order *)

GpuExecute ==
    /\ queue # <<>>
    /\ queue' = Tail(queue)
    /\ LET head == Head(queue)
       IN  \/ /\ head.op = "write"
              /\ res["uniformBuffer"] = "valid"
              /\ uniformBuffer' = WriteBytes(uniformBuffer, head.bufferOffset,
                                             head.data, head.dataOffset, head.size)
              /\ uniformFrame' = head.frame
              /\ UNCHANGED lastDraw
           \/ /\ head.op = "write"
              /\ res["uniformBuffer"] # "valid"
              /\ UNCHANGED <<uniformBuffer, uniformFrame, lastDraw>>
           \/ /\ head.op = "submit"
              /\ head.valid
              /\ lastDraw' = [frame |-> head.frame, uniformFrame |-> uniformFrame,
                              view |-> head.view, vertices |-> head.vertices]
              /\ UNCHANGED <<uniformBuffer, uniformFrame>>
           \/ /\ head.op = "submit"
              /\ ~head.valid
              /\ UNCHANGED <<uniformBuffer, uniformFrame, lastDraw>>
    /\ UNCHANGED <<bootVars, errors, mainVars, rafPending, tickVars>>
    /\ UNCHANGED calls

-----------------------------------------------------------------------------
(* Specifications *)

Startup ==
    \/ Script
    \/ FetchVert
    \/ FetchFrag
    \/ AdapterSettled
    \/ DeviceSettled
    \/ CallMain
    \/ AllRejected

MainStep ==
    \/ CreateVerticesBuffer
    \/ SetVertices
    \/ Unmap
    \/ CreateVertexModule
    \/ CreateFragmentModule
    \/ CreateRenderPipeline
    \/ CreateDepthTexture
    \/ CreateUniformBuffer
    \/ CreateBindGroup
    \/ RenderPassDescriptor
    \/ Perspective
    \/ Create
    \/ StartLoop

FrameStep ==
    \/ GetTransformationMatrix
    \/ WriteBuffer
    \/ CreateView
    \/ CreateCommandEncoder
    \/ BeginRenderPass
    \/ SetPipeline
    \/ SetBindGroup
    \/ SetVertexBuffer
    \/ Draw
    \/ End
    \/ Submit
    \/ RequestAnimationFrame

Next ==
    \/ Startup
    \/ MainStep
    \/ MainThrow
    \/ FrameBegin
    \/ FrameStep
    \/ FrameThrow
    \/ GpuExecute

Spec == Init /\ [][Next]_vars

\* no statement of frame() throws, the host delivers every requested callback,
\* the callback runs to its end and the device drains its queue
LiveNext ==
    \/ Startup
    \/ MainStep
    \/ MainThrow
    \/ FrameBegin
    \/ FrameStep
    \/ GpuExecute

LiveSpec ==
    /\ Init
    /\ [][LiveNext]_vars
    /\ WF_vars(FrameBegin)
    /\ WF_vars(FrameStep)
    /\ WF_vars(GpuExecute)

\* The matrix function alone: the closure of main() for some canvas size, and
\* a sequence of calls of getTransformationMatrix() at arbitrary times, each
\* writing into the one reused output array (lines 179-202)
MatrixInit ==
    /\ InitFixed
    /\ canvasSize \in MatrixSizes
    /\ projectionMatrix = ProjectionOf(canvasSize)
    /\ modelViewProjectionMatrix = Mat4Create

MatrixCall ==
    /\ Len(calls) < MaxCalls
    /\ \E t \in TimeValues :
          /\ now' = t
          /\ modelViewProjectionMatrix' =
                getTransformationMatrix(t, projectionMatrix,
                                        modelViewProjectionMatrix)
          /\ calls' = Append(calls, <<t, modelViewProjectionMatrix',
                                      RotationAxis(t)>>)
    /\ projectionMatrix' =
          ProjectionAfterMultiply(projectionMatrix, modelViewProjectionMatrix')
    /\ UNCHANGED <<bootVars, errors, mainCalls, mainPc, res, verticesState,
                   vertexUploads, projections, rafInitial,
                   rafPending, pc, frameNo, ticks, submitReturned, frameFailed,
                   colorView, currentView, encoder, lastEnqueued, gpuVars>>

MatrixNext == MatrixCall

MatrixSpec == MatrixInit /\ [][MatrixNext]_vars

-----------------------------------------------------------------------------
(* Properties *)

\* a tick begins in this step
TickBegins == frameNo' # frameNo

\* frame() appends an operation of this kind to the queue in this step
Enqueues(kind) ==
    /\ Len(queue') = Len(queue) + 1
    /\ queue'[Len(queue')].op = kind

\* C1: in every tick the uniform write is enqueued before the command buffer
\* is submitted and no other uniform write comes between the two: the
\* operation enqueued just before the submission of tick N is the write of
\* tick N, a queued submission is directly behind the write of its own tick,
\* and every draw the device executes reads the uniform buffer as written by
\* the draw's own tick, never by the tick before or after.
C1_QueueOrder ==
    /\ \A i \in DOMAIN queue :
          queue[i].op = "submit" =>
             IF i > 1
             THEN queue[i - 1].op = "write" /\ queue[i - 1].frame = queue[i].frame
             ELSE queue[i].valid => uniformFrame = queue[i].frame
    /\ lastDraw # NoDraw => lastDraw.uniformFrame = lastDraw.frame
C1_WriteBeforeSubmit ==
    /\ []C1_QueueOrder
    /\ [][Enqueues("submit") =>
            /\ lastEnqueued = [op |-> "write", frame |-> frameNo]
            /\ queue'[Len(queue')].frame = frameNo]_vars

\* C1 witness: the draw of tick 1 was executed with the matrix of tick 1
\* while the write of tick 2 was already waiting in the queue.
C1_Witness ==
    /\ lastDraw.frame = 1
    /\ lastDraw.uniformFrame = 1
    /\ queue # <<>>
    /\ Head(queue).op = "write"
    /\ Head(queue).frame = 2

\* C2: no two ticks overlap: a tick begins only when no tick is executing
\* and, unless it is the first tick, only after the queue.submit call of the
\* tick before it has returned.
C2_NoOverlap ==
    [][TickBegins => /\ pc = 0
                     /\ ticks # "none" => submitReturned]_vars

\* C2 witness: a later tick has just begun, after the submission of the tick
\* before it, whose commands are still queued.
C2_Witness ==
    /\ ticks = "many"
    /\ pc = 1
    /\ lastEnqueued.op = "submit"
    /\ queue # <<>>

\* a statement of main() has thrown
MainThrew ==
    \E i \in DOMAIN errors, j \in DOMAIN mainBody : errors[i] = mainBody[j]

\* a create call of main() has returned an invalid object
CreatedInvalid == \E r \in Resources : res[r] = "invalid"

\* C3: if any of the resource-creation steps of main() fails, the frame loop
\* never reaches Running: the first requestAnimationFrame(frame) is never
\* issued and no tick ever executes.
C3_FailureBlocksLoop ==
    (MainThrew \/ CreatedInvalid) =>
        rafInitial = 0 /\ rafPending = 0 /\ ticks = "none" /\ pc = 0

\* What does hold of main(): a creation step that throws aborts main() before
\* line 230, so no callback is requested and no tick executes.
ThrowBlocksLoop ==
    MainThrew => rafInitial = 0 /\ rafPending = 0 /\ ticks = "none" /\ pc = 0

\* C4: the loop is started exactly once per session: main() is invoked at
\* most once, line 230 is executed at most once and only after every GPU
\* object has been created and the vertex buffer unmapped, every tick and
\* every pending callback stems from that one start, and a main() that has
\* returned without throwing has executed line 230 once.
C4_StartedOnce ==
    /\ mainCalls <= 1
    /\ rafInitial <= 1
    /\ rafInitial = 1 =>
          /\ mainCalls = 1
          /\ \A r \in Resources : res[r] # "none"
          /\ verticesState = "unmapped"
    /\ (ticks # "none" \/ rafPending > 0 \/ pc # 0) => rafInitial = 1
    /\ (mainCalls = 1 /\ mainPc = 0 /\ ~MainThrew) => rafInitial = 1

\* C4 witness: main() ran once, started the loop once, and several ticks
\* have run since.
C4_Witness ==
    /\ mainCalls = 1
    /\ rafInitial = 1
    /\ ticks = "many"
    /\ pc = 0

\* C5: once the loop is Running, with every requested callback delivered and
\* no statement of frame() throwing, ticks begin infinitely often, and
\* between two ticks a next tick is always scheduled.
C5_TicksForever ==
    /\ []((rafInitial = 1 /\ JsIdle) => rafPending > 0)
    /\ [](rafInitial = 1 => []<>(pc = 1))

\* C5 witness: the loop is Running and a tick after the first has begun.
C5_Witness ==
    /\ rafInitial = 1
    /\ ticks = "many"
    /\ pc = 1
    /\ ~frameFailed

\* C6: a tick that throws is fatal: it leaves no callback requested, and
\* from then on no tick begins, no statement of frame() executes and nothing
\* more is enqueued.
C6_FailureIsFatal ==
    /\ [](frameFailed => pc = 0 /\ rafPending = 0)
    /\ [][frameFailed => /\ frameNo' = frameNo
                         /\ pc' = 0
                         /\ rafPending' = 0
                         /\ Len(queue') <= Len(queue)
                         /\ lastEnqueued' = lastEnqueued]_vars

\* C6 witness: a tick after the first threw in queue.submit, after its
\* uniform write had been enqueued.
C6_Witness ==
    /\ frameFailed
    /\ ticks = "many"
    /\ errors # <<>>
    /\ errors[Len(errors)] = "submit"
    /\ lastEnqueued = [op |-> "write", frame |-> frameNo]

\* the uniform buffer as the operations enqueued so far leave it: the device
\* memory with the queued writes applied in order (a write to an invalid
\* buffer is rejected with a validation error)
RECURSIVE ApplyWrites(_, _)
ApplyWrites(buffer, q) ==
    IF q = <<>> THEN buffer
    ELSE LET head == Head(q)
         IN  ApplyWrites(IF head.op = "write" /\ res["uniformBuffer"] = "valid"
                         THEN WriteBytes(buffer, head.bufferOffset, head.data,
                                         head.dataOffset, head.size)
                         ELSE buffer,
                         Tail(q))
QueuedUniform == ApplyWrites(uniformBuffer, queue)

\* a tick has run to its end and none has thrown
TickCompleted == ticks # "none" /\ pc = 0 /\ ~frameFailed

\* C7: after every completed tick the uniform buffer holds exactly the 64
\* bytes of the matrix getTransformationMatrix() computed in that tick,
\* every byte of it written by that tick's one write at offset 0.
C7_UniformHoldsMatrix ==
    TickCompleted =>
        /\ Len(QueuedUniform) = uniformBufferSize
        /\ QueuedUniform = BytesOf(modelViewProjectionMatrix)
        /\ modelViewProjectionMatrix =
              getTransformationMatrix(now, projectionMatrix, Mat4Create)
        /\ lastEnqueued = [op |-> "submit", frame |-> frameNo]

\* What does hold of frame(): wherever the uniform buffer was created valid,
\* it holds the tick's matrix after every completed tick.
ValidUniformHoldsMatrix ==
    res["uniformBuffer"] = "valid" => C7_UniformHoldsMatrix

\* C8: main(), and with it every GPU object, every requested callback and
\* every tick, exists only after the adapter, the device, the configured
\* context and both shader texts have been obtained, whatever the order in
\* which the fetches and the requests settle; and no step of the handshake
\* runs once frame() has been requested.
C8_HandshakeFirst ==
    /\ []((mainCalls > 0 \/ mainPc # 0 \/ (\E r \in Resources : res[r] # "none")
             \/ rafPending > 0 \/ ticks # "none")
          => /\ adapter = "ok" /\ device = "ok" /\ context = "ok"
             /\ configured
             /\ vertFetch = "text" /\ fragFetch = "text"
             /\ adapterReq = "settled" /\ deviceReq = "settled")
    /\ [][(rafInitial > 0 \/ pc # 0) => UNCHANGED bootVars]_vars

\* C8 witness: a tick executes, after a handshake that obtained the adapter,
\* the device, the context and both shader texts.
C8_Witness ==
    /\ pc # 0
    /\ mainCalls = 1
    /\ adapter = "ok" /\ device = "ok" /\ context = "ok"
    /\ vertFetch = "text" /\ fragFetch = "text"

\* the environment is unsupported
Unsupported ==
    boot = "aborted" \/ adapter = "null" \/ device = "null" \/ context = "null"

\* C9: in an unsupported environment (no navigator.gpu, no canvas, a null
\* adapter, device or context) exactly one error has been raised, no adapter
\* or device request is outstanding or was issued twice, main() was never
\* invoked, no GPU object exists and the loop was never started.
C9_UnsupportedIsFatal ==
    Unsupported =>
        /\ Len(errors) = 1
        /\ errors[1] \in { "WebGPU not suported on this browser",
                           "Canvas not found", "Adapter not found",
                           "device not found", "Context not found" }
        /\ adapterRequests <= 1 /\ deviceRequests <= 1
        /\ adapterReq # "pending" /\ deviceReq # "pending"
        /\ allThen = "none"
        /\ mainCalls = 0 /\ mainPc = 0
        /\ \A r \in Resources : res[r] = "none"
        /\ rafInitial = 0 /\ rafPending = 0 /\ ticks = "none" /\ pc = 0

\* C9 witness: the context came back null after both shader texts had
\* arrived; one error, and main() was not invoked.
C9_Witness ==
    /\ context = "null"
    /\ device = "ok"
    /\ vertFetch = "text" /\ fragFetch = "text"
    /\ errors = <<"Context not found">>

\* C10: two calls of getTransformationMatrix() with the same time, under the
\* same aspect ratio, return bit-identical matrices whatever calls were made
\* between them; the result is what a call with a fresh output array and
\* the projection of the canvas size returns.
C10_Deterministic ==
    /\ \A i, j \in DOMAIN calls :
          calls[i][1] = calls[j][1] =>
             /\ calls[i][2] = calls[j][2]
             /\ BytesOf(calls[i][2]) = BytesOf(calls[j][2])
    /\ \A i \in DOMAIN calls :
          calls[i][2] = getTransformationMatrix(calls[i][1],
                                                ProjectionOf(canvasSize),
                                                Mat4Create)

\* C10 witness: a call, a call at another time with another result, and a
\* call at the first time again.
C10_Witness ==
    /\ Len(calls) >= 3
    /\ calls[1][1] = calls[3][1]
    /\ calls[2][1] # calls[1][1]
    /\ calls[2][2] # calls[1][2]
    /\ calls[3][2] = calls[1][2]

\* C11 as stated: a call at time 0 and a call at a multiple of the divisor
\* (5000 ms) use the same rotation axis.
C11_SameAxisEveryPeriod ==
    \A i, j \in DOMAIN calls :
        (calls[i][1] = 0 /\ calls[j][1] % TimeDivisor = 0)
            => calls[j][3] = calls[i][3]

\* C11, amended: the rotation axis of a call at time nowMs is
\* (sin t, cos t, 0) for t = nowMs / 5000 radians, so calls at equal times
\* use the same axis, a call at time 0 uses (0, 1, 0), and a call at a
\* positive multiple k * 5000 of the divisor uses (sin k, cos k, 0), an axis
\* other than that of time 0, and returns another matrix: the divisor is
\* not a period of the axis.
C11_AxisFollowsTime ==
    \A i \in DOMAIN calls :
        LET t == calls[i][1] \div TimeDivisor
        IN  /\ calls[i][3] = <<MathSin(t), MathCos(t), 0>>
            /\ calls[i][1] = 0 => calls[i][3] = <<0, Scale, 0>>
            /\ \A j \in DOMAIN calls :
                  /\ calls[j][1] = calls[i][1] => calls[j][3] = calls[i][3]
                  /\ (calls[i][1] = 0 /\ calls[j][1] # 0
                        /\ calls[j][1] % TimeDivisor = 0)
                     => /\ calls[j][3] # calls[i][3]
                        /\ calls[j][2] # calls[i][2]

\* C11 witness: a call at time 0 followed by a call one divisor later.
C11_Witness ==
    /\ Len(calls) = 2
    /\ calls[1][1] = 0
    /\ calls[2][1] = TimeDivisor

\* the loop is Running: it was started and no tick has thrown
Running == rafInitial = 1 /\ ~frameFailed

\* C12: at most one frame callback is requested and not yet run; none is
\* pending while a tick executes; while Running exactly one is pending
\* between two ticks; and a tick requests its successor only as its last
\* step, after its queue.submit has returned, ending the tick with one
\* callback pending, which the next tick consumes.
C12_OnePendingCallback ==
    /\ [](/\ rafPending <= 1
          /\ pc # 0 => rafPending = 0
          /\ (Running /\ JsIdle) => rafPending = 1)
    /\ [][(pc # 0 /\ rafPending' # rafPending)
            => /\ submitReturned
               /\ lastEnqueued = [op |-> "submit", frame |-> frameNo]
               /\ rafPending' = rafPending + 1
               /\ pc' = 0]_vars
    /\ [][TickBegins => rafPending = 1 /\ rafPending' = 0]_vars

\* C12 witness: between two ticks while Running: the tick before has
\* submitted and returned, and one callback is pending for the next tick.
C12_Witness ==
    /\ Running
    /\ ticks = "many"
    /\ JsIdle
    /\ submitReturned
    /\ rafPending = 1

\* the id of the view context.getCurrentTexture().createView() returns in
\* the tick numbered n
ViewOfTick(n) == IF n = 0 THEN MaxTicks ELSE n

\* C13: the color view of a render pass is the view acquired in the tick
\* that begins the pass: a pass is begun only with the view createView()
\* returned in the same tick, every queued command buffer and every executed
\* draw carries the view of its own tick, never one of an earlier tick; yet
\* the descriptor is shared: when a later tick begins, it still holds the
\* view of the tick before, until line 215 overwrites it.
C13_FreshViewEveryTick ==
    /\ [](/\ encoder.state \in {"pass", "ended"}
             => /\ encoder.view = currentView
                /\ encoder.view = colorView
                /\ encoder.view = ViewOfTick(frameNo)
          /\ \A i \in DOMAIN queue :
                queue[i].op = "submit" => queue[i].view = ViewOfTick(queue[i].frame)
          /\ lastDraw # NoDraw => lastDraw.view = ViewOfTick(lastDraw.frame)
          /\ (ticks = "many" /\ pc = 1)
             => colorView # 0 /\ colorView # currentView)
    /\ [][(encoder.state = "open" /\ encoder'.state = "pass")
            => encoder'.view = currentView /\ colorView = currentView]_vars
    /\ [][colorView' # colorView
            => pc # 0 /\ colorView' = currentView /\ colorView' # 0]_vars

\* C13 witness: a later tick has begun its pass with its own view while the
\* last executed draw, of the tick before, used another view.
C13_Witness ==
    /\ ticks = "many"
    /\ encoder.state = "pass"
    /\ encoder.view = currentView
    /\ lastDraw # NoDraw
    /\ lastDraw.view # encoder.view

\* the GPU object exists: its create call has returned
Created(r) == res[r] # "none"

\* C14: the GPU objects are created once each, by main() only, in
\* dependency order: the vertex buffer is allocated, filled and unmapped
\* before anything else is created, both shader modules before the
\* pipeline, the depth texture and the uniform buffer after the pipeline,
\* and the bind group last, when the pipeline and the uniform buffer exist;
\* a create call makes one object that did not exist before, and no tick
\* creates or re-creates any of them.
C14_BuiltOnceInOrder ==
    /\ [](/\ mainCalls <= 1 /\ vertexUploads <= 1
          /\ ~(mainPc # 0 /\ pc # 0)
          /\ Created("verticesBuffer") <=> verticesState # "none"
          /\ vertexUploads = 1 <=> verticesState \in {"uploaded", "unmapped"}
          /\ (Created("vertexModule") \/ Created("fragmentModule"))
             => verticesState = "unmapped" /\ vertexUploads = 1
          /\ Created("fragmentModule") => Created("vertexModule")
          /\ Created("pipeline")
             => Created("vertexModule") /\ Created("fragmentModule")
          /\ Created("depthTexture") => Created("pipeline")
          /\ Created("uniformBuffer")
             => Created("pipeline") /\ Created("depthTexture")
          /\ Created("uniformBindGroup")
             => \A r \in Resources : Created(r)
          /\ (rafInitial > 0 \/ ticks # "none" \/ pc # 0)
             => \A r \in Resources : Created(r))
    /\ [][(res' # res \/ verticesState' # verticesState
             \/ vertexUploads' # vertexUploads)
            => /\ mainPc # 0 /\ pc = 0 /\ ticks = "none" /\ rafInitial = 0
               /\ \A r \in Resources : res'[r] # res[r] => ~Created(r)
               /\ Cardinality({r \in Resources : res'[r] # res[r]}) <= 1]_vars

\* C14 witness: every object was created valid, the bind group included,
\* and a later tick is executing with the objects as main() left them.
C14_Witness ==
    /\ \A r \in Resources : res[r] = "valid"
    /\ verticesState = "unmapped"
    /\ vertexUploads = 1
    /\ ticks = "many"
    /\ pc # 0

\* a step of a tick: the callback begins, executes a statement or throws
TickStep == pc # 0 \/ pc' # 0

\* the device executes the operation at the head of its queue
DeviceStep == Len(queue') < Len(queue)

OnePassOneDraw(e) ==
    /\ e.state = "ended"
    /\ e.passes = 1
    /\ e.view # 0
    /\ e.draws = 1
    /\ ~e.indexed
    /\ e.vertices = cubeVertexCount /\ e.vertices = 36
    /\ e.unboundDraws = 0
    /\ e.pipeline
    /\ e.bindGroup /\ e.group = 0
    /\ e.vertexBuffer /\ e.slot = 0

\* C16: every tick submits exactly one command buffer, with exactly one
\* render pass and exactly one non-indexed draw of 36 vertices: the pass is
\* begun once, after the color view was assigned; the draw is recorded once,
\* with the pipeline, the bind group at group 0 and the vertex buffer at
\* slot 0 bound; the pass is ended before the encoder is finished and
\* submitted; a tick submits once, and a tick that ends without throwing
\* has submitted.
C16_EncoderProtocol ==
    /\ [](/\ encoder.passes <= 1 /\ encoder.draws <= 1
          /\ encoder.unboundDraws = 0
          /\ encoder.state = "pass" => encoder.view # 0 /\ encoder.view = colorView
          /\ encoder.draws = 1
             => /\ encoder.state \in {"pass", "ended"}
                /\ encoder.pipeline
                /\ encoder.bindGroup /\ encoder.group = 0
                /\ encoder.vertexBuffer /\ encoder.slot = 0
                /\ encoder.vertices = 36 /\ ~encoder.indexed
          /\ \A i \in DOMAIN queue :
                queue[i].op = "submit"
                   => /\ OnePassOneDraw(queue[i].commands)
                      /\ queue[i].draws = 1 /\ queue[i].vertices = 36
          /\ lastDraw # NoDraw => lastDraw.vertices = 36)
    /\ [][Enqueues("submit")
            => /\ ~submitReturned
               /\ OnePassOneDraw(encoder)
               /\ queue'[Len(queue')].commands = encoder]_vars
    /\ [][(pc # 0 /\ pc' = 0 /\ ~frameFailed') => submitReturned]_vars

\* C16 witness: a later tick has submitted its command buffer, one pass
\* with one draw of 36 vertices, and the device has executed the draw.
C16_Witness ==
    /\ ticks = "many"
    /\ submitReturned
    /\ lastDraw.frame = frameNo
    /\ lastDraw.vertices = 36
    /\ queue = <<>>

=============================================================================
